---- MODULE Spec2Model ----
(***************************************************************************)
(* Deposit-to-hedge pipeline of krww-manager.                              *)
(*                                                                         *)
(*   chain event -> DepositMonitor -> deposit record + queued request      *)
(*               -> HedgeService   -> four venue calls -> positions + log  *)
(*                                                                         *)
(* The durable store (Redis) survives a process crash; the fields of the   *)
(* two services do not.  An event handler of the monitor is one step; the  *)
(* consumer loop of the hedge service is a step per suspension point that  *)
(* matters to the order of its effects (pop, guard read, fan-out, position *)
(* writes, log write).  Key expiry (7 and 30 days) is outside the model.   *)
(*                                                                         *)
(* KRWWManagerApp.start and stop are steps of their own, as are the        *)
(* suspension of DepositMonitor.start at its store read, the listener and  *)
(* interval registrations, and the settling of each venue call of the      *)
(* fan-out.  The order of pushes and pops of the work queue is recorded.   *)
(***************************************************************************)
EXTENDS Integers, Sequences, FiniteSets, TLC

\* ------------------------------------------------------------------ bounds
NumTx == 2          \* deposit transactions that the chain may mine
MaxTime == 1        \* Date.now() ranges over 0..MaxTime
MaxCrashes == 1     \* process crashes in one behaviour
MaxQueue == 2       \* requests already queued when the hedge service is built
MaxStoreFaults == 1 \* handler runs in which store commands fail
MaxSize == 460      \* order sizes range over 0..MaxSize, in units of 0.0001 ETH
MaxLoops == 2       \* loops of processHedgeRequests alive at once
MaxTimers == 2      \* intervals of startPeriodicCheck alive at once

\* ------------------------------------------------------- program constants
BackfillWindow == 100   \* start(): getBlockNumber() - 100
TotalHedges == 2        \* logHedgeExecution: totalHedges: 2

\* ------------------------------------------------------------ environment
EthPrice == 2           \* what binanceService.getCurrentPrice('ETHUSDT') returns
FillPrice == 3          \* the price a venue reports for an accepted order
ContractUsd == 3        \* contractSize / krwusdPrice, the USD value of one contract
StepSizes == {10, 20}   \* stepSize / qtyStep of an instrument, in units of 0.0001
MinQtys == {10, 100}    \* minQty / minOrderQty of an instrument, in units of 0.0001

\* config: the credentials and addresses of the chain and of the four venues
\* (redis.url is never empty: it defaults to redis://localhost:6379).
ConfigFields ==
    {"ethereum.rpcUrl", "ethereum.privateKey", "ethereum.depositContractAddress",
     "binance.apiKey", "binance.secretKey", "cme.apiKey", "cme.secretKey",
     "hyperliquid.privateKey", "hyperliquid.walletAddress",
     "bybit.apiKey", "bybit.secretKey"}

\* validateConfig: requiredFields
RequiredFields ==
    {"ethereum.rpcUrl", "ethereum.privateKey", "ethereum.depositContractAddress",
     "binance.apiKey", "binance.secretKey",
     "hyperliquid.privateKey", "hyperliquid.walletAddress",
     "bybit.apiKey", "bybit.secretKey"}

Tx == 1..NumTx
Loops == 1..MaxLoops
VenueOrder == <<"binance", "cme", "hyperliquid", "bybit">>
Venues == {VenueOrder[i] : i \in 1..Len(VenueOrder)}

NoBlock == -1000        \* redis.get('last_processed_block') returned null
NoReq == [depositTxHash |-> 0, ethAmount |-> 0]
Malformed == [depositTxHash |-> -1, ethAmount |-> 0]  \* a payload that is not JSON
NoPos == [id |-> <<"none", 0>>, type |-> "none", status |-> "none", amount |-> 0, price |-> 0]
NoLog == [txHash |-> 0, positions |-> <<>>, successCount |-> -1, totalHedges |-> -1]
NoOutcome == [binance |-> "none", price |-> "none", cme |-> "none",
              hyperliquid |-> "none", bybit |-> "none"]
NoReturn == [op |-> "none", txHash |-> 0, value |-> <<>>]
NoHttp == [route |-> "none", txHash |-> 0, status |-> 0, known |-> FALSE]
NoSize == [size |-> 0, stepSize |-> 0, minQty |-> 0]
NoOrder == [venue |-> "none", quantity |-> 0]
NoClose == [txHash |-> 0, readOk |-> TRUE, before |-> [v \in Venues |-> NoPos],
            closed |-> {}, calls |-> [v \in Venues |-> 0], result |-> FALSE]

VARIABLES
    \* the chain
    head,               \* provider.getBlockNumber()
    blockOf,            \* blockOf[tx]: block of the ETHDeposited log of tx, 0 = not mined
    pendingLive,        \* pendingLive[tx]: handler calls the provider owes for the
                        \* log of tx, one per handler registered when it was seen
    now,                \* Date.now()
    \* DepositMonitor fields
    isRunning,
    lastProcessedBlock,
    reconList,          \* checkMissedEvents: the events of queryFilter not yet handled
    \* the durable store
    deposits,           \* keys deposit:<txHash>
    depositIndex,       \* sorted set deposits:timestamp, pairs <<score, member>>
    queue,              \* list hedge_requests; lPush at the head, brPop at the tail
    persistedLast,      \* key last_processed_block
    hedge,              \* keys hedge:<txHash>:<type>
    hedgeIndex,         \* sets hedge_index:<txHash>
    hedgeLog,           \* keys hedge_log:<txHash>
    faultsLeft,         \* handler runs that may still see a store command fail
    \* HedgeService fields and the position of its consumer loop
    isProcessing,
    pc,                 \* pc[l]: where loop l of processHedgeRequests is:
                        \* "stopped", "pop", "guard", "fanout", "wait", "store",
                        \* "log"
    cur,                \* cur[l]: the request loop l is executing
    results,            \* results[l]: what Promise.allSettled returned
    \* history
    handled,            \* handled[tx]: invocations of handleDepositEvent for tx
    pushed,             \* pushed[tx]: requests lPush accepted for tx
    pushOrder,          \* the depositTxHash of every payload lPush accepted, oldest first
    popOrder,           \* the depositTxHash of every payload brPop returned, oldest first
    venueCalls,         \* venueCalls[tx][v]: open-short calls made to v for tx
    logWrites,          \* logWrites[tx]: execution logs written for tx
    startBlock,         \* lastProcessedBlock as start() set it
    startPersisted,     \* whether start() found last_processed_block in the store
    liveSinceStart,     \* a live delivery was handled since start()
    cyclesSinceStart,   \* reconciliation cycles begun since start(), capped at 2
    cycleHead,          \* getBlockNumber() of the last cycle
    crashes,
    outcome,            \* outcome[l]: what the venues did in the fan-out of loop l
    reported,           \* reported[tx]: what executeHedge logged as the outcome
    discarded,          \* queue payloads the loop popped and could not parse
    \* calls from outside the pipeline and what they returned
    returned,           \* the last read accessor call and its return value
    http,               \* the last response of a route keyed by txHash
    lastClose,          \* the last call of closeHedgePositions
    requested,          \* the size an adapter was asked to sell
    submitted,          \* the quantity the adapter put in its order
    \* KRWWManagerApp
    present,            \* the fields of config that are not empty
    app,                \* where start() is: "created", "validated", "connected",
                        \* "listening", "failed", "stopped"
    connected,          \* RedisManager: client.isOpen
    \* what DepositMonitor has registered with the provider and the runtime
    listeners,          \* handlers registered for ETHDeposited (contract.on)
    timers,             \* intervals of startPeriodicCheck not yet cleared
    starting            \* calls of start() suspended at their read of the store

chainVars == <<head, blockOf, pendingLive, now>>
monitorVars == <<isRunning, lastProcessedBlock, reconList>>
monitorStore == <<deposits, depositIndex, persistedLast>>
hedgeStore == <<hedge, hedgeIndex, hedgeLog>>
consumerVars == <<isProcessing, pc, cur, results>>
monitorHistory == <<handled, pushed, pushOrder, startBlock, startPersisted,
                    liveSinceStart, cyclesSinceStart, cycleHead>>
hedgeHistory == <<venueCalls, logWrites, outcome, reported, discarded, popOrder>>
callVars == <<returned, http, lastClose, requested, submitted>>
appVars == <<present, app, connected>>
regVars == <<listeners, timers, starting>>
sysVars == <<appVars, regVars>>
apiVars == <<callVars, sysVars>>

vars == <<chainVars, monitorVars, monitorStore, queue, hedgeStore, faultsLeft,
          consumerVars, monitorHistory, hedgeHistory, crashes, apiVars>>

Max(a, b) == IF a > b THEN a ELSE b
Min(a, b) == IF a < b THEN a ELSE b

\* --------------------------------------------------------------- the store
\* redis.setEx(`deposit:${txHash}`, ...): one value per key, the last written.
SetEx(recs, ev) ==
    {r \in recs : r.transactionHash # ev.transactionHash} \cup {ev}

\* Mutant: the index keeps the earlier entry of the member.
ZAddAppend(idx, score, member) == idx \cup {<<score, member>>}

\* redis.zAdd('deposits:timestamp', {score, value}): a member has one score.
ZAdd(idx, score, member) ==
    {p \in idx : p[2] # member} \cup {<<score, member>>}

\* redis.lPush('hedge_requests', ...)
LPush(q, req) == <<req>> \o q

\* Mutant: the pop takes the element pushed last (lPop).
BrPopElementHead(q) == q[1]

\* What redis.brPop('hedge_requests', 5) takes, and what it leaves.
BrPopElement(q) == q[Len(q)]

BrPopRest(q) == SubSeq(q, 1, Len(q) - 1)

\* What a command of the store can do for a handler: on a closed client
\* every command rejects; on an open one it is accepted, or rejects while
\* failures are left to the behaviour.
StoreOutcomes ==
    IF ~connected THEN {FALSE}
    ELSE IF faultsLeft > 0 THEN BOOLEAN ELSE {TRUE}

\* faultsLeft after a handler run whose commands were all accepted (ok) or not.
FaultsAfter(ok) == IF ok \/ ~connected THEN faultsLeft ELSE faultsLeft - 1

\* A read made for a caller outside the pipeline is answered or rejected; a
\* rejected one changes nothing, so these are not counted in faultsLeft.
ReadOutcomes == IF connected THEN BOOLEAN ELSE {FALSE}

\* ------------------------------------------------------------------ chain
AmountOf(tx) == tx      \* the deposited amount of tx, in ETH

Mined == {tx \in Tx : blockOf[tx] # 0}

\* A block with the next k deposits is mined; a running monitor's
\* subscription sees its logs.
MineBlock(k) ==
    LET first == Cardinality(Mined) + 1
        new == first..(first + k - 1)
    IN  /\ new # {}
        /\ new \subseteq Tx
        /\ head' = head + 1
        /\ blockOf' = [tx \in Tx |-> IF tx \in new THEN head + 1 ELSE blockOf[tx]]
        /\ pendingLive' = [tx \in Tx |-> IF tx \in new THEN listeners
                                        ELSE pendingLive[tx]]
        /\ UNCHANGED <<now, monitorVars, monitorStore, queue, hedgeStore, faultsLeft,
                       consumerVars, monitorHistory, hedgeHistory, crashes, apiVars>>

\* contract.queryFilter(filter, fromBlock, toBlock): the logs of the range in
\* chain order (deposits are numbered in the order they are mined).
RECURSIVE Ascending(_)
Ascending(S) ==
    IF S = {} THEN <<>>
    ELSE LET m == CHOOSE x \in S : \A y \in S : x <= y
         IN  <<m>> \o Ascending(S \ {m})

QueryFilter(from, to) ==
    Ascending({tx \in Mined : blockOf[tx] >= from /\ blockOf[tx] <= to})

\* -------------------------------------------------------- DepositMonitor
\* Mutant: the field follows the block of the last event handled.
NextLastProcessedLatest(last, b) == b

\* updateLastProcessedBlock: the field after an event of block b.
NextLastProcessed(last, b) == IF b > last THEN b ELSE last

\* Mutant: the range starts one block late.
FromBlockLate(last) == last + 2

\* checkMissedEvents: const fromBlock = this.lastProcessedBlock + 1
FromBlock(last) == last + 1

\* Mutant: without a stored block the monitor starts from genesis.
SeedBlockGenesis(stored, current) ==
    IF stored # NoBlock THEN stored ELSE 0

\* start(): lastBlock ? parseInt(lastBlock) : getBlockNumber() - 100
SeedBlock(stored, current) ==
    IF stored # NoBlock THEN stored ELSE current - BackfillWindow

\* Mutant: a request already in the queue is not pushed again.
QueueAfterPushOnce(q, req) ==
    IF \E i \in 1..Len(q) : q[i] = req THEN q ELSE LPush(q, req)

\* queueHedgeRequest: the list after the handler's push of req.
QueueAfterPush(q, req) == LPush(q, req)

\* handleDepositEvent for the log of tx, read at time ts.  storeDepositEvent,
\* queueHedgeRequest and updateLastProcessedBlock each catch and log the
\* failure of their store command (okSet, okZ, okPush, okLast), so the steps
\* after a failed one still run; a failed setEx skips the zAdd of its try.
HandleDepositEvent(tx, ts, okSet, okZ, okPush, okLast) ==
    LET b == blockOf[tx]
        depositEvent == [transactionHash |-> tx, blockNumber |-> b,
                         amount |-> AmountOf(tx), timestamp |-> ts]
        hedgeRequest == [depositTxHash |-> tx, ethAmount |-> depositEvent.amount]
    IN  /\ now' = ts
        /\ deposits' = IF okSet THEN SetEx(deposits, depositEvent) ELSE deposits
        /\ depositIndex' = IF okSet /\ okZ THEN ZAdd(depositIndex, ts, tx)
                           ELSE depositIndex
        /\ queue' = IF okPush THEN QueueAfterPush(queue, hedgeRequest) ELSE queue
        /\ lastProcessedBlock' = NextLastProcessed(lastProcessedBlock, b)
        /\ persistedLast' = IF b > lastProcessedBlock /\ okLast
                            THEN NextLastProcessed(lastProcessedBlock, b)
                            ELSE persistedLast
        /\ handled' = [handled EXCEPT ![tx] = @ + 1]
        /\ pushed' = [pushed EXCEPT ![tx] = IF okPush THEN @ + 1 ELSE @]
        /\ pushOrder' = IF okPush THEN Append(pushOrder, tx) ELSE pushOrder
        /\ faultsLeft' = FaultsAfter(okSet /\ okZ /\ okPush /\ okLast)

Clock == now..Min(now + 1, MaxTime)

\* start() when its read of the store is answered before anything else
\* runs: the flag, the seed, contract.on and startPeriodicCheck.
MonitorStart ==
    /\ ~isRunning
    /\ starting = 0
    /\ timers < MaxTimers
    /\ isRunning' = TRUE
    /\ lastProcessedBlock' = SeedBlock(persistedLast, head)
    /\ listeners' = listeners + 1
    /\ timers' = timers + 1
    /\ startBlock' = SeedBlock(persistedLast, head)
    /\ startPersisted' = (persistedLast # NoBlock)
    /\ liveSinceStart' = FALSE
    /\ cyclesSinceStart' = 0
    /\ cycleHead' = head
    /\ UNCHANGED <<chainVars, reconList, monitorStore, queue, hedgeStore, faultsLeft,
                   consumerVars, handled, pushed, pushOrder, hedgeHistory, crashes, callVars,
                   appVars, starting>>

\* start() up to `await this.redis.get('last_processed_block')`.
MonitorStartBegin ==
    /\ ~isRunning
    /\ starting = 0
    /\ timers < MaxTimers
    /\ isRunning' = TRUE
    /\ starting' = starting + 1
    /\ UNCHANGED <<chainVars, lastProcessedBlock, reconList, monitorStore, queue,
                   hedgeStore, faultsLeft, consumerVars, monitorHistory, hedgeHistory,
                   crashes, callVars, appVars, listeners, timers>>

\* start() from the answer of the store on: the seed, contract.on and
\* startPeriodicCheck, whatever stop() did to the flag in between.
MonitorStartResume ==
    /\ starting > 0
    /\ starting' = starting - 1
    /\ lastProcessedBlock' = SeedBlock(persistedLast, head)
    /\ listeners' = listeners + 1
    /\ timers' = timers + 1
    /\ startBlock' = SeedBlock(persistedLast, head)
    /\ startPersisted' = (persistedLast # NoBlock)
    /\ liveSinceStart' = FALSE
    /\ cyclesSinceStart' = 0
    /\ cycleHead' = head
    /\ UNCHANGED <<chainVars, isRunning, reconList, monitorStore, queue, hedgeStore,
                   faultsLeft, consumerVars, handled, pushed, pushOrder, hedgeHistory, crashes,
                   callVars, appVars>>

\* start(): the read of the store rejects; the catch clears the flag and
\* rethrows.
MonitorStartFails ==
    /\ starting > 0
    /\ starting' = starting - 1
    /\ isRunning' = FALSE
    /\ UNCHANGED <<chainVars, lastProcessedBlock, reconList, monitorStore, queue,
                   hedgeStore, faultsLeft, consumerVars, monitorHistory, hedgeHistory,
                   crashes, callVars, appVars, listeners, timers>>

\* stop(): returns if the flag is clear; otherwise clears it and removes the
\* listeners.  The interval is left to its next tick, and a cycle of
\* checkMissedEvents in flight goes on.
MonitorStop ==
    /\ isRunning
    /\ isRunning' = FALSE
    /\ listeners' = 0
    /\ pendingLive' = [tx \in Tx |-> 0]
    /\ UNCHANGED <<head, blockOf, now, lastProcessedBlock, reconList, monitorStore,
                   queue, hedgeStore, faultsLeft, consumerVars, monitorHistory,
                   hedgeHistory, crashes, callVars, appVars, timers, starting>>

\* The interval callback on a stopped monitor: clearInterval(checkInterval).
TimerExpire ==
    /\ timers > 0
    /\ ~isRunning
    /\ timers' = timers - 1
    /\ UNCHANGED <<chainVars, monitorVars, monitorStore, queue, hedgeStore, faultsLeft,
                   consumerVars, monitorHistory, hedgeHistory, crashes, callVars,
                   appVars, listeners, starting>>

NextLive ==
    CHOOSE tx \in Tx : pendingLive[tx] > 0 /\ \A u \in Tx : pendingLive[u] > 0 => tx <= u

\* The provider calls a handler with the oldest log it owes one.
LiveDeliver ==
    /\ \E tx \in Tx : pendingLive[tx] > 0
    /\ pendingLive' = [pendingLive EXCEPT ![NextLive] = @ - 1]
    /\ \E ts \in Clock : \E okSet, okZ, okPush, okLast \in StoreOutcomes :
           HandleDepositEvent(NextLive, ts, okSet, okZ, okPush, okLast)
    /\ liveSinceStart' = TRUE
    /\ UNCHANGED <<head, blockOf, isRunning, reconList, hedgeStore,
                   consumerVars, startBlock, startPersisted, cyclesSinceStart,
                   cycleHead, hedgeHistory, crashes, apiVars>>

\* The subscription silently misses a log (provider disconnect).
LiveMiss ==
    /\ \E tx \in Tx : pendingLive[tx] > 0
    /\ pendingLive' = [pendingLive EXCEPT ![NextLive] = 0]
    /\ UNCHANGED <<head, blockOf, now, monitorVars, monitorStore, queue, hedgeStore,
                   faultsLeft, consumerVars, monitorHistory, hedgeHistory, crashes, apiVars>>

\* The interval timer fires on a running monitor: checkMissedEvents reads the
\* head and queries the range (a cycle starts when the previous one is over).
ReconFetch ==
    /\ timers > 0
    /\ isRunning
    /\ reconList = <<>>
    /\ reconList' = IF FromBlock(lastProcessedBlock) > head THEN <<>>
                    ELSE QueryFilter(FromBlock(lastProcessedBlock), head)
    /\ cyclesSinceStart' = Min(cyclesSinceStart + 1, 2)
    /\ cycleHead' = head
    /\ UNCHANGED <<chainVars, isRunning, lastProcessedBlock, monitorStore, queue,
                   hedgeStore, faultsLeft, consumerVars, handled, pushed, pushOrder, startBlock,
                   startPersisted, liveSinceStart, hedgeHistory, crashes, apiVars>>

\* Mutant: a store failure inside the handler ends the cycle.
RemainingEventsAbort(events, ok) == IF ok THEN Tail(events) ELSE <<>>

\* checkMissedEvents: the events left to `for (const event of events)` after
\* the turn of the first one; handleDepositEvent catches whatever its turn
\* throws (ok tells whether its store commands worked), so nothing reaches
\* the catch of checkMissedEvents.
RemainingEvents(events, ok) == Tail(events)

\* checkMissedEvents: one turn of `for (const event of events)`.
ReconStep ==
    /\ reconList # <<>>
    /\ \E ts \in Clock : \E okSet, okZ, okPush, okLast \in StoreOutcomes :
           /\ HandleDepositEvent(Head(reconList), ts, okSet, okZ, okPush, okLast)
           /\ reconList' = RemainingEvents(reconList, okSet /\ okZ /\ okPush /\ okLast)
    /\ UNCHANGED <<head, blockOf, pendingLive, isRunning, hedgeStore,
                   consumerVars, startBlock, startPersisted, liveSinceStart,
                   cyclesSinceStart, cycleHead, hedgeHistory, crashes, apiVars>>

\* ---------------------------------------------------------- venue adapters
\* What an adapter call can do: return a position that is open (filled at
\* once) or pending, return a position it marked failed, or throw.
Fulfilled(pos) == [status |-> "fulfilled", value |-> pos]
Rejected == [status |-> "rejected", value |-> NoPos]

\* `${type}_${orderId}`, `${type}_failed_${Date.now()}`: the type, then what
\* tells the positions of one venue apart (n).
PositionId(type, n) == <<type, n>>

\* getHedgeByTxHash: const [type] = positionId.split('_')
IdType(id) == id[1]

Position(type, n, status, amount, price) ==
    [id |-> PositionId(type, n), type |-> type, status |-> status,
     amount |-> amount, price |-> price]

\* BinanceService.createShortPosition: the catch rethrows.
BinanceCreateShortPosition(amount, out, n) ==
    IF out = "throw" THEN Rejected
    ELSE Fulfilled(Position("binance", n, out, amount, FillPrice))

\* CMEService.createKRWUSDShortPosition: floor(usdValue / (contractSize /
\* krwusdPrice)) contracts; zero contracts throws, and the catch returns
\* fallbackPosition with the requested usdValue.
CMECreateKRWUSDShortPosition(usdValue, out, n) ==
    LET numberOfContracts == usdValue \div ContractUsd
    IN  IF out = "failed" \/ numberOfContracts = 0
        THEN Fulfilled(Position("cme", n, "failed", usdValue, 0))
        ELSE Fulfilled(Position("cme", n, out, numberOfContracts, FillPrice))

\* HyperliquidService.createShortPosition: the catch returns failedPosition.
HyperliquidCreateShortPosition(amount, out, n) ==
    IF out = "failed" THEN Fulfilled(Position("hyperliquid", n, "failed", amount, 0))
    ELSE Fulfilled(Position("hyperliquid", n, out, amount, FillPrice))

\* BybitService.createShortPosition: the catch returns failedPosition.
BybitCreateShortPosition(amount, out, n) ==
    IF out = "failed" THEN Fulfilled(Position("bybit", n, "failed", amount, 0))
    ELSE Fulfilled(Position("bybit", n, out, amount, FillPrice))

\* The outcomes of the calls of one fan-out.  price is that of
\* binanceService.getCurrentPrice in executeCMEHedge; when it throws the CME
\* adapter is not called, and cme is what its order would have done.
VenueOutcomes ==
    [binance : {"open", "pending", "throw"},
     price : {"ok", "throw"},
     cme : {"open", "pending", "failed"},
     hyperliquid : {"open", "pending", "failed"},
     bybit : {"open", "pending", "failed"}]

\* The outcomes without a pending order.
FillOrFail ==
    {o \in VenueOutcomes : \A f \in {"binance", "cme", "hyperliquid", "bybit"} :
        o[f] # "pending"}

\* Every venue fills at once, or every call fails in its adapter's way.
AllOrNone ==
    {o \in FillOrFail :
        \/ o.binance = "open" /\ o.price = "ok" /\ o.cme = "open"
           /\ o.hyperliquid = "open" /\ o.bybit = "open"
        \/ o.binance = "throw" /\ o.cme = "failed"
           /\ o.hyperliquid = "failed" /\ o.bybit = "failed"}

\* executeHedge: what it logs after the execution log is written.
Classify(successCount) ==
    IF successCount = 0 THEN "unhedged"
    ELSE IF successCount = 1 THEN "partial"
    ELSE "full"

\* Mutant: the quantity is not raised to the minimum.
OrderQuantityFloor(amount, stepSize, minQty) == (amount \div stepSize) * stepSize

\* createShortPosition of Binance and of Bybit:
\*   quantity = Math.floor(ethAmount / stepSize) * stepSize
\*   quantity = Math.max(quantity, minQty)
OrderQuantity(amount, stepSize, minQty) ==
    Max((amount \div stepSize) * stepSize, minQty)

\* The adapter of venue sizes the order for the requested amount.
SizeOrder(venue) ==
    /\ requested # NoSize
    /\ submitted' = [venue |-> venue,
                     quantity |-> OrderQuantity(requested.size, requested.stepSize,
                                                requested.minQty)]
    /\ UNCHANGED <<chainVars, monitorVars, monitorStore, queue, hedgeStore, faultsLeft,
                   consumerVars, monitorHistory, hedgeHistory, crashes,
                   returned, http, lastClose, requested, sysVars>>

BinanceSizeOrder == SizeOrder("binance")
BybitSizeOrder == SizeOrder("bybit")

\* ----------------------------------------------------------- HedgeService
ExecuteBinanceHedge(req, o, n) == BinanceCreateShortPosition(req.ethAmount, o.binance, n)

ExecuteCMEHedge(req, o, n) ==
    IF o.price = "throw" THEN Rejected
    ELSE CMECreateKRWUSDShortPosition(req.ethAmount * EthPrice, o.cme, n)

ExecuteHyperliquidHedge(req, o, n) ==
    HyperliquidCreateShortPosition(req.ethAmount, o.hyperliquid, n)

ExecuteBybitHedge(req, o, n) == BybitCreateShortPosition(req.ethAmount, o.bybit, n)

\* The adapters whose open-short call a fan-out with outcomes o invokes.
Invoked(o) == IF o.price = "throw" THEN Venues \ {"cme"} ELSE Venues

\* Mutant: a position an adapter marked failed is not collected.
RECURSIVE HedgePositionsNotFailed(_)
HedgePositionsNotFailed(res) ==
    IF res = <<>> THEN <<>>
    ELSE (IF Head(res).status = "fulfilled" /\ Head(res).value.status # "failed"
          THEN <<Head(res).value>> ELSE <<>>)
         \o HedgePositionsNotFailed(Tail(res))

\* executeHedge: results.forEach pushes result.value of the fulfilled ones.
RECURSIVE HedgePositions(_)
HedgePositions(res) ==
    IF res = <<>> THEN <<>>
    ELSE (IF Head(res).status = "fulfilled" THEN <<Head(res).value>> ELSE <<>>)
         \o HedgePositions(Tail(res))

\* executeHedge: successCount++ for every fulfilled result.
RECURSIVE SuccessCount(_)
SuccessCount(res) ==
    IF res = <<>> THEN 0
    ELSE (IF Head(res).status = "fulfilled" THEN 1 ELSE 0) + SuccessCount(Tail(res))

\* getHedgeByTxHash: one read of hedge:<txHash>:<type> per member of the
\* index set, the records found in the order read.
IdKey(id) ==
    (CHOOSE i \in 1..Len(VenueOrder) : VenueOrder[i] = IdType(id)) * 1000 + id[2]

RECURSIVE ReadPositions(_, _)
ReadPositions(tx, ids) ==
    IF ids = {} THEN <<>>
    ELSE LET id == CHOOSE x \in ids : \A y \in ids : IdKey(x) <= IdKey(y)
             positionData == hedge[tx][IdType(id)]
         IN  (IF positionData # NoPos THEN <<positionData>> ELSE <<>>)
             \o ReadPositions(tx, ids \ {id})

GetHedgeByTxHash(tx) == ReadPositions(tx, hedgeIndex[tx])

\* A venue gives a new order an id it has not given before.
FreshN(tx, type) == venueCalls[tx][type] + 1

\* storeHedgePosition for each of positions, in order: setEx of the record
\* under its type, sAdd of its id.
RECURSIVE StoredHedge(_, _)
StoredHedge(h, positions) ==
    IF positions = <<>> THEN h
    ELSE StoredHedge([h EXCEPT ![Head(positions).type] = Head(positions)],
                     Tail(positions))

RECURSIVE StoredIndex(_, _)
StoredIndex(idx, positions) ==
    IF positions = <<>> THEN idx
    ELSE StoredIndex(idx \cup {Head(positions).id}, Tail(positions))

\* logHedgeExecution: the record written under hedge_log:<txHash>.
ExecutionLog(req, positions, count) ==
    [txHash |-> req.depositTxHash, positions |-> positions,
     successCount |-> count, totalHedges |-> TotalHedges]

\* Mutant: the loop ends after one turn.
LoopTopOnce(running) == "stopped"

\* Mutant: the loop does not test the flag.
LoopTopAlways(running) == "pop"

\* processHedgeRequests: `while (this.isProcessing)`, where the loop is after
\* the loop condition: suspended in brPop, or over.
LoopTop(running) == IF running THEN "pop" ELSE "stopped"

\* Mutant: an error caught in the loop ends the loop.
AfterCatchExit(running) == "stopped"

\* processHedgeRequests: the catch logs, sleeps a second and goes back to
\* the condition of the loop.
AfterCatch(running) == LoopTop(running)

\* JSON.parse(requestData.element) returns a request or throws.
Parses(element) == element # Malformed

\* The loops of processHedgeRequests that are not over, and those inside
\* executeHedge.
Live == {l \in Loops : pc[l] # "stopped"}
InFlight == {l \in Loops : pc[l] \in {"guard", "fanout", "wait", "store", "log"}}

\* start(): returns if the flag is set; otherwise sets it and calls
\* processHedgeRequests without awaiting it, whether or not a loop of an
\* earlier start() is still alive.  The new loop runs up to its brPop.
HedgeStart ==
    /\ ~isProcessing
    /\ Live # Loops
    /\ isProcessing' = TRUE
    /\ LET l == CHOOSE k \in Loops \ Live : \A m \in Loops \ Live : k <= m
       IN  pc' = [pc EXCEPT ![l] = LoopTop(TRUE)]
    /\ UNCHANGED <<chainVars, monitorVars, monitorStore, queue, hedgeStore, faultsLeft,
                   cur, results, monitorHistory, hedgeHistory, crashes, apiVars>>

\* stop(): clears the flag; a loop sees it at its next turn.
HedgeStop ==
    /\ isProcessing
    /\ isProcessing' = FALSE
    /\ UNCHANGED <<chainVars, monitorVars, monitorStore, queue, hedgeStore, faultsLeft,
                   pc, cur, results, monitorHistory, hedgeHistory, crashes, apiVars>>

\* processHedgeRequests: the brPop of loop l returned an element.  A payload
\* that does not parse throws into the catch of the loop and is gone from the
\* list.
Pop(l) ==
    /\ pc[l] = "pop"
    /\ connected
    /\ queue # <<>>
    /\ queue' = BrPopRest(queue)
    /\ popOrder' = Append(popOrder, BrPopElement(queue).depositTxHash)
    /\ IF Parses(BrPopElement(queue))
       THEN /\ cur' = [cur EXCEPT ![l] = BrPopElement(queue)]
            /\ pc' = [pc EXCEPT ![l] = "guard"]
            /\ discarded' = discarded
       ELSE /\ cur' = [cur EXCEPT ![l] = NoReq]
            /\ pc' = [pc EXCEPT ![l] = AfterCatch(isProcessing)]
            /\ discarded' = discarded + 1
    /\ UNCHANGED <<chainVars, monitorVars, monitorStore, hedgeStore, faultsLeft,
                   isProcessing, results, monitorHistory, venueCalls, logWrites,
                   outcome, reported, crashes, apiVars>>

\* processHedgeRequests: brPop rejected (the store is unreachable or the
\* client closed); nothing is popped and the catch goes back to the condition
\* of the loop.
PopFails(l) ==
    /\ pc[l] = "pop"
    /\ FALSE \in StoreOutcomes
    /\ faultsLeft' = FaultsAfter(FALSE)
    /\ pc' = [pc EXCEPT ![l] = AfterCatch(isProcessing)]
    /\ UNCHANGED <<chainVars, monitorVars, monitorStore, queue, hedgeStore,
                   isProcessing, cur, results, monitorHistory, hedgeHistory, crashes,
                   apiVars>>

\* processHedgeRequests: brPop timed out on the empty list after stop().
LoopExit(l) ==
    /\ pc[l] = "pop"
    /\ connected
    /\ queue = <<>>
    /\ ~isProcessing
    /\ pc' = [pc EXCEPT ![l] = LoopTop(isProcessing)]
    /\ UNCHANGED <<chainVars, monitorVars, monitorStore, queue, hedgeStore, faultsLeft,
                   isProcessing, cur, results, monitorHistory, hedgeHistory, crashes,
                   apiVars>>

\* executeHedge: the existence check; getHedgeByTxHash returns [] when the
\* read fails (readOk).
Guard(l) ==
    /\ pc[l] = "guard"
    /\ \E readOk \in StoreOutcomes :
        LET existingHedge == IF readOk THEN GetHedgeByTxHash(cur[l].depositTxHash)
                             ELSE <<>>
        IN  /\ IF Len(existingHedge) > 0
               THEN /\ pc' = [pc EXCEPT ![l] = LoopTop(isProcessing)]
                    /\ cur' = [cur EXCEPT ![l] = NoReq]
               ELSE /\ pc' = [pc EXCEPT ![l] = "fanout"]
                    /\ cur' = cur
            /\ faultsLeft' = FaultsAfter(readOk)
    /\ UNCHANGED <<chainVars, monitorVars, monitorStore, queue, hedgeStore,
                   isProcessing, results, monitorHistory, hedgeHistory, crashes, apiVars>>

\* executeHedge: the four calls are made and Promise.allSettled resolves.
FanOut(l, o) ==
    LET tx == cur[l].depositTxHash
    IN  /\ pc[l] = "fanout"
        /\ results' = [results EXCEPT ![l] =
               <<ExecuteBinanceHedge(cur[l], o, FreshN(tx, "binance")),
                 ExecuteCMEHedge(cur[l], o, FreshN(tx, "cme")),
                 ExecuteHyperliquidHedge(cur[l], o, FreshN(tx, "hyperliquid")),
                 ExecuteBybitHedge(cur[l], o, FreshN(tx, "bybit"))>>]
        /\ venueCalls' = [venueCalls EXCEPT ![tx] =
               [v \in Venues |-> IF v \in Invoked(o) THEN @[v] + 1 ELSE @[v]]]
        /\ outcome' = [outcome EXCEPT ![l] = o]
        /\ pc' = [pc EXCEPT ![l] = "store"]
        /\ UNCHANGED <<chainVars, monitorVars, monitorStore, queue, hedgeStore,
                       faultsLeft, isProcessing, cur, monitorHistory, logWrites,
                       reported, discarded, popOrder, crashes, apiVars>>

\* A promise of hedgePromises that has not settled.
Unsettled == [status |-> "pending", value |-> NoPos]

\* What the call of the i-th promise settles to under outcomes o; n[v] is the
\* number of the call made to venue v.
SettledResult(req, o, i, n) ==
    IF i = 1 THEN ExecuteBinanceHedge(req, o, n["binance"])
    ELSE IF i = 2 THEN ExecuteCMEHedge(req, o, n["cme"])
    ELSE IF i = 3 THEN ExecuteHyperliquidHedge(req, o, n["hyperliquid"])
    ELSE ExecuteBybitHedge(req, o, n["bybit"])

\* Mutant: the fan-out resumes at the first promise that settles.
SettledAny(res) == \E i \in 1..Len(res) : res[i].status # "pending"

\* Promise.allSettled(hedgePromises) resolves when every promise has been
\* fulfilled or rejected.
Settled(res) == \A i \in 1..Len(res) : res[i].status # "pending"

\* executeHedge: the four calls are made (the fan-out, one promise a venue).
FanOutCall(l, o) ==
    LET tx == cur[l].depositTxHash
    IN  /\ pc[l] = "fanout"
        /\ results' = [results EXCEPT ![l] = [i \in 1..Len(VenueOrder) |-> Unsettled]]
        /\ venueCalls' = [venueCalls EXCEPT ![tx] =
               [v \in Venues |-> IF v \in Invoked(o) THEN @[v] + 1 ELSE @[v]]]
        /\ outcome' = [outcome EXCEPT ![l] = o]
        /\ pc' = [pc EXCEPT ![l] = "wait"]
        /\ UNCHANGED <<chainVars, monitorVars, monitorStore, queue, hedgeStore,
                       faultsLeft, isProcessing, cur, monitorHistory, logWrites,
                       reported, discarded, popOrder, crashes, apiVars>>

\* The i-th promise of the fan-out of loop l settles.
Settle(l, i) ==
    /\ pc[l] = "wait"
    /\ results[l][i] = Unsettled
    /\ results' = [results EXCEPT ![l][i] =
           SettledResult(cur[l], outcome[l], i, venueCalls[cur[l].depositTxHash])]
    /\ UNCHANGED <<chainVars, monitorVars, monitorStore, queue, hedgeStore, faultsLeft,
                   isProcessing, pc, cur, monitorHistory, hedgeHistory, crashes,
                   apiVars>>

\* executeHedge: `await Promise.allSettled(hedgePromises)` resumes.
AllSettled(l) ==
    /\ pc[l] = "wait"
    /\ Settled(results[l])
    /\ pc' = [pc EXCEPT ![l] = "store"]
    /\ UNCHANGED <<chainVars, monitorVars, monitorStore, queue, hedgeStore, faultsLeft,
                   isProcessing, cur, results, monitorHistory, hedgeHistory, crashes,
                   apiVars>>

\* The positions of a list whose type is in types.
RECURSIVE OfTypes(_, _)
OfTypes(positions, types) ==
    IF positions = <<>> THEN <<>>
    ELSE (IF Head(positions).type \in types THEN <<Head(positions)>> ELSE <<>>)
         \o OfTypes(Tail(positions), types)

\* What the store commands of storeHedgePosition can do for the positions of
\* one execution: the types whose setEx is accepted and, among them, those
\* whose sAdd is accepted (a failed setEx skips the sAdd of its try).
WriteOutcomes ==
    IF ~connected THEN {[setEx |-> {}, sAdd |-> {}]}
    ELSE IF faultsLeft > 0
    THEN {w \in [setEx : SUBSET Venues, sAdd : SUBSET Venues] : w.sAdd \subseteq w.setEx}
    ELSE {[setEx |-> Venues, sAdd |-> Venues]}

\* executeHedge: `for (const position of hedgePositions)`; storeHedgePosition
\* catches and logs the failure of its store commands.
StorePositions(l) ==
    LET tx == cur[l].depositTxHash
        positions == HedgePositions(results[l])
    IN  /\ pc[l] = "store"
        /\ \E w \in WriteOutcomes :
               /\ hedge' = [hedge EXCEPT ![tx] =
                      StoredHedge(@, OfTypes(positions, w.setEx))]
               /\ hedgeIndex' = [hedgeIndex EXCEPT ![tx] =
                      StoredIndex(@, OfTypes(positions, w.sAdd))]
               /\ faultsLeft' = FaultsAfter(OfTypes(positions, w.sAdd) = positions)
        /\ pc' = [pc EXCEPT ![l] = "log"]
        /\ UNCHANGED <<chainVars, monitorVars, monitorStore, queue, hedgeLog,
                       isProcessing, cur, results, monitorHistory, hedgeHistory, crashes,
                       apiVars>>

\* Mutant: an execution in which a venue call was rejected removes what it
\* stored.
AfterOutcomeRollback(h, successCount) ==
    IF successCount < Len(VenueOrder) THEN [v \in Venues |-> NoPos] ELSE h

\* executeHedge: the positions of the deposit after the branches on
\* successCount, which only log (all failed, partial, full).
AfterOutcome(h, successCount) == h

\* executeHedge: logHedgeExecution (which catches and logs the failure of its
\* setEx, okLog) and the report of the outcome, then back to the loop.
LogExecution(l) ==
    LET tx == cur[l].depositTxHash
    IN  /\ pc[l] = "log"
        /\ \E okLog \in StoreOutcomes :
               /\ hedgeLog' = IF okLog
                               THEN [hedgeLog EXCEPT ![tx] =
                                        ExecutionLog(cur[l], HedgePositions(results[l]),
                                                     SuccessCount(results[l]))]
                               ELSE hedgeLog
               /\ logWrites' = [logWrites EXCEPT ![tx] = IF okLog THEN @ + 1 ELSE @]
               /\ faultsLeft' = FaultsAfter(okLog)
        /\ reported' = [reported EXCEPT ![tx] = Classify(SuccessCount(results[l]))]
        /\ pc' = [pc EXCEPT ![l] = LoopTop(isProcessing)]
        /\ cur' = [cur EXCEPT ![l] = NoReq]
        /\ results' = [results EXCEPT ![l] = <<>>]
        /\ outcome' = [outcome EXCEPT ![l] = NoOutcome]
        /\ hedge' = [hedge EXCEPT ![tx] = AfterOutcome(@, SuccessCount(results[l]))]
        /\ UNCHANGED <<chainVars, monitorVars, monitorStore, queue, hedgeIndex,
                       isProcessing, monitorHistory, venueCalls, discarded, popOrder,
                       crashes, apiVars>>

\* closePosition of the adapter of position.type: each adapter catches the
\* errors of its buy order and returns whether the order was filled.
ClosePosition(position, filled) == filled[position.type]

\* closeHedgePositions: allClosed after `for (const position of positions)`.
RECURSIVE AllClosed(_, _)
AllClosed(positions, filled) ==
    IF positions = <<>> THEN TRUE
    ELSE LET success == ClosePosition(Head(positions), filled)
         IN  AllClosed(Tail(positions), filled) /\ success

\* closeHedgePositions: the close calls dispatched to the adapter of type by
\* `for (const position of positions)`; a false result or an error of a call
\* is caught inside the turn and the loop goes on.
RECURSIVE CloseCalls(_, _)
CloseCalls(positions, type) ==
    IF positions = <<>> THEN 0
    ELSE (IF Head(positions).type = type THEN 1 ELSE 0)
         + CloseCalls(Tail(positions), type)

\* closeHedgePositions(tx): getHedgeByTxHash returns [] when a read of the
\* store fails (readOk), each position read gets one close call, and nothing
\* is written to the store.
CloseHedgePositions(tx, readOk, filled) ==
    LET positions == IF readOk THEN GetHedgeByTxHash(tx) ELSE <<>>
    IN  /\ lastClose' = [txHash |-> tx, readOk |-> readOk, before |-> hedge[tx],
                         closed |-> {positions[i].type : i \in
                                        {j \in 1..Len(positions) :
                                            ClosePosition(positions[j], filled)}},
                         calls |-> [v \in Venues |-> CloseCalls(positions, v)],
                         result |-> AllClosed(positions, filled)]
        /\ UNCHANGED <<chainVars, monitorVars, monitorStore, queue, hedgeStore,
                       faultsLeft, consumerVars, monitorHistory, hedgeHistory, crashes,
                       returned, http, requested, submitted, sysVars>>

\* ---------------------------------------------------------- read accessors
\* redis.get(`deposit:${txHash}`): the value of the key, or null (<<>>).
DepositData(tx) ==
    IF \E r \in deposits : r.transactionHash = tx
    THEN <<CHOOSE r \in deposits : r.transactionHash = tx>>
    ELSE <<>>

\* redis.zRange('deposits:timestamp', 0, limit - 1, {REV: true}): the members
\* by falling score, members of one score by falling name.
ZTop(idx) ==
    CHOOSE p \in idx : \A q \in idx : q[1] < p[1] \/ (q[1] = p[1] /\ q[2] <= p[2])

RECURSIVE ZRangeRev(_, _)
ZRangeRev(idx, limit) ==
    IF idx = {} \/ limit = 0 THEN <<>>
    ELSE <<ZTop(idx)[2]>> \o ZRangeRev(idx \ {ZTop(idx)}, limit - 1)

\* Mutant: the members read are taken out of the index (zPopMax).
ZRangeLeavesRest(idx, members) ==
    {p \in idx : \A i \in 1..Len(members) : members[i] # p[2]}

\* The index after zRange has read members: a read leaves it as it is.
ZRangeLeaves(idx, members) == idx

\* getDepositHistory: `for (const txHash of txHashes)`, records found only.
RECURSIVE DepositsOf(_)
DepositsOf(txHashes) ==
    IF txHashes = <<>> THEN <<>>
    ELSE DepositData(Head(txHashes)) \o DepositsOf(Tail(txHashes))

\* The accessors return [] or null when a read of the store fails (readOk).
GetDepositHistory(limit, readOk) ==
    IF readOk THEN DepositsOf(ZRangeRev(depositIndex, limit)) ELSE <<>>

GetDepositByTxHash(tx, readOk) == IF readOk THEN DepositData(tx) ELSE <<>>

GetHedgeLog(tx, readOk) ==
    IF readOk /\ hedgeLog[tx] # NoLog THEN <<hedgeLog[tx]>> ELSE <<>>

HedgeByTxHash(tx, readOk) == IF readOk THEN GetHedgeByTxHash(tx) ELSE <<>>

\* A call of a read accessor from outside the pipeline: what it returns and
\* what it leaves in the store.
Returns(op, arg, value, index) ==
    /\ returned' = [op |-> op, txHash |-> arg, value |-> value]
    /\ depositIndex' = index
    /\ UNCHANGED <<chainVars, monitorVars, deposits, persistedLast, queue, hedgeStore,
                   faultsLeft, consumerVars, monitorHistory, hedgeHistory, crashes,
                   http, lastClose, requested, submitted, sysVars>>

CallGetDepositHistory ==
    \E limit \in 1..NumTx : \E readOk \in ReadOutcomes :
        Returns("getDepositHistory", limit, GetDepositHistory(limit, readOk),
                IF readOk
                THEN ZRangeLeaves(depositIndex, ZRangeRev(depositIndex, limit))
                ELSE depositIndex)

CallGetDepositByTxHash ==
    \E tx \in Tx : \E readOk \in ReadOutcomes :
        Returns("getDepositByTxHash", tx, GetDepositByTxHash(tx, readOk), depositIndex)

CallGetHedgeByTxHash ==
    \E tx \in Tx : \E readOk \in ReadOutcomes :
        Returns("getHedgeByTxHash", tx, HedgeByTxHash(tx, readOk), depositIndex)

CallGetHedgeLog ==
    \E tx \in Tx : \E readOk \in ReadOutcomes :
        Returns("getHedgeLog", tx, GetHedgeLog(tx, readOk), depositIndex)

\* ----------------------------------------------------------------- routes
\* What a route keyed by txHash answers, and whether anything was recorded
\* under the txHash when it was called.
Responds(route, tx, status, known) ==
    /\ http' = [route |-> route, txHash |-> tx, status |-> status, known |-> known]
    /\ UNCHANGED <<chainVars, monitorVars, monitorStore, queue, hedgeStore,
                   faultsLeft, consumerVars, monitorHistory, hedgeHistory, crashes,
                   returned, lastClose, requested, submitted, sysVars>>

\* GET /api/deposits/:txHash: 404 if getDepositByTxHash returned null.
GetDepositRoute ==
    \E tx \in Tx : \E readOk \in ReadOutcomes :
        LET deposit == GetDepositByTxHash(tx, readOk)
        IN  Responds("deposits", tx, IF deposit = <<>> THEN 404 ELSE 200,
                     DepositData(tx) # <<>>)

\* GET /api/hedges/:txHash: the positions and the log, whatever they are.
GetHedgesRoute ==
    \E tx \in Tx : \E readOk \in ReadOutcomes :
        LET positions == HedgeByTxHash(tx, readOk)
            log == GetHedgeLog(tx, readOk)
        IN  Responds("hedges", tx, 200,
                     hedgeIndex[tx] # {} \/ hedgeLog[tx] # NoLog
                         \/ (\E v \in Venues : hedge[tx][v] # NoPos))

\* --------------------------------------------------------- KRWWManagerApp
\* validateConfig: throws at the first required field that is empty.
ValidateConfig(fields) == RequiredFields \subseteq fields

\* start(): validateConfig(); a throw is logged and rethrown, and main exits.
AppValidate ==
    /\ app = "created"
    /\ app' = IF ValidateConfig(present) THEN "validated" ELSE "failed"
    /\ UNCHANGED <<chainVars, monitorVars, monitorStore, queue, hedgeStore, faultsLeft,
                   consumerVars, monitorHistory, hedgeHistory, crashes, callVars,
                   present, connected, regVars>>

\* start(): await this.redisManager.connect(), which connects or rejects.
AppConnect ==
    /\ app = "validated"
    /\ \E ok \in BOOLEAN :
           /\ connected' = ok
           /\ app' = IF ok THEN "connected" ELSE "failed"
    /\ UNCHANGED <<chainVars, monitorVars, monitorStore, queue, hedgeStore, faultsLeft,
                   consumerVars, monitorHistory, hedgeHistory, crashes, callVars,
                   present, regVars>>

\* start(): await this.depositMonitor.start()
AppStartMonitor ==
    /\ app = "connected"
    /\ ~isRunning
    /\ MonitorStart

\* start(): await this.hedgeService.start()
AppStartHedge ==
    /\ app = "connected"
    /\ isRunning
    /\ ~isProcessing
    /\ HedgeStart

\* start(): this.app.listen(port, ...)
AppListen ==
    /\ app = "connected"
    /\ isRunning
    /\ isProcessing
    /\ app' = "listening"
    /\ UNCHANGED <<chainVars, monitorVars, monitorStore, queue, hedgeStore, faultsLeft,
                   consumerVars, monitorHistory, hedgeHistory, crashes, callVars,
                   present, connected, regVars>>

\* stop(): depositMonitor.stop(), hedgeService.stop() and
\* redisManager.disconnect().  Neither stop() waits for anything, so the
\* client is closed in the turn in which stop() was called; what is in flight
\* goes on.
AppStop ==
    /\ app = "listening"
    /\ app' = "stopped"
    /\ isRunning' = FALSE
    /\ listeners' = IF isRunning THEN 0 ELSE listeners
    /\ pendingLive' = IF isRunning THEN [tx \in Tx |-> 0] ELSE pendingLive
    /\ isProcessing' = FALSE
    /\ connected' = FALSE
    /\ UNCHANGED <<head, blockOf, now, lastProcessedBlock, reconList, monitorStore,
                   queue, hedgeStore, faultsLeft, pc, cur, results, monitorHistory,
                   hedgeHistory, crashes, callVars, present, timers, starting>>

\* The process dies: the fields of both services, the subscription and what
\* was in flight are lost; the store is not.
Crash ==
    /\ crashes < MaxCrashes
    /\ crashes' = crashes + 1
    /\ isRunning' = FALSE
    /\ lastProcessedBlock' = 0
    /\ reconList' = <<>>
    /\ pendingLive' = [tx \in Tx |-> 0]
    /\ listeners' = 0
    /\ timers' = 0
    /\ starting' = 0
    /\ isProcessing' = FALSE
    /\ pc' = [l \in Loops |-> "stopped"]
    /\ cur' = [l \in Loops |-> NoReq]
    /\ results' = [l \in Loops |-> <<>>]
    /\ outcome' = [l \in Loops |-> NoOutcome]
    /\ UNCHANGED <<head, blockOf, now, monitorStore, queue, hedgeStore, faultsLeft,
                   monitorHistory, venueCalls, logWrites, reported, discarded,
                   popOrder, callVars, appVars>>

\* ------------------------------------------------------------------- Init
InitBuilt(faults, size, fields, at, open) ==
    /\ head = 0
    /\ blockOf = [tx \in Tx |-> 0]
    /\ pendingLive = [tx \in Tx |-> 0]
    /\ now = 0
    /\ isRunning = FALSE
    /\ lastProcessedBlock = 0
    /\ reconList = <<>>
    /\ deposits = {}
    /\ depositIndex = {}
    /\ queue = <<>>
    /\ persistedLast = NoBlock
    /\ hedge = [tx \in Tx |-> [v \in Venues |-> NoPos]]
    /\ hedgeIndex = [tx \in Tx |-> {}]
    /\ hedgeLog = [tx \in Tx |-> NoLog]
    /\ faultsLeft = faults
    /\ isProcessing = FALSE
    /\ pc = [l \in Loops |-> "stopped"]
    /\ cur = [l \in Loops |-> NoReq]
    /\ results = [l \in Loops |-> <<>>]
    /\ handled = [tx \in Tx |-> 0]
    /\ pushed = [tx \in Tx |-> 0]
    /\ pushOrder = <<>>
    /\ popOrder = <<>>
    /\ venueCalls = [tx \in Tx |-> [v \in Venues |-> 0]]
    /\ logWrites = [tx \in Tx |-> 0]
    /\ startBlock = 0
    /\ startPersisted = FALSE
    /\ liveSinceStart = FALSE
    /\ cyclesSinceStart = 0
    /\ cycleHead = 0
    /\ crashes = 0
    /\ outcome = [l \in Loops |-> NoOutcome]
    /\ reported = [tx \in Tx |-> "none"]
    /\ discarded = 0
    /\ returned = NoReturn
    /\ http = NoHttp
    /\ lastClose = NoClose
    /\ requested = size
    /\ submitted = NoOrder
    /\ present = fields
    /\ app = at
    /\ connected = open
    /\ listeners = 0
    /\ timers = 0
    /\ starting = 0

\* The services as KRWWManagerApp.start() has them once the store is
\* connected, before it starts them.
InitAsked(faults, size) == InitBuilt(faults, size, ConfigFields, "connected", TRUE)

\* A process whose environment sets any of the fields, before start().
InitApp ==
    \E fields \in SUBSET ConfigFields : InitBuilt(0, NoSize, fields, "created", FALSE)

InitWith(faults) == InitAsked(faults, NoSize)

\* An adapter is about to size an order.
InitSizing ==
    \E size \in [size : 0..MaxSize, stepSize : StepSizes, minQty : MinQtys] :
        InitAsked(0, size)

NextMonitor ==
    \/ \E k \in 1..NumTx : MineBlock(k)
    \/ MonitorStart
    \/ MonitorStop
    \/ LiveDeliver
    \/ LiveMiss
    \/ ReconFetch
    \/ ReconStep
    \/ TimerExpire

\* A started monitor whose subscription misses every log, so that the
\* reconciliation cycles handle them.
NextRecon ==
    \/ \E k \in 1..NumTx : MineBlock(k)
    \/ MonitorStart
    \/ LiveMiss
    \/ ReconFetch
    \/ ReconStep

\* The monitor with start() as the two steps around its read of the store.
NextLifecycle ==
    \/ \E k \in 1..NumTx : MineBlock(k)
    \/ MonitorStartBegin
    \/ MonitorStartResume
    \/ MonitorStartFails
    \/ MonitorStop
    \/ LiveDeliver
    \/ LiveMiss
    \/ ReconFetch
    \/ ReconStep
    \/ TimerExpire

NextHedgeWith(outcomes) ==
    \/ HedgeStart
    \/ \E l \in Loops : Pop(l)
    \/ \E l \in Loops : Guard(l)
    \/ \E l \in Loops : \E o \in outcomes : FanOut(l, o)
    \/ \E l \in Loops : StorePositions(l)
    \/ \E l \in Loops : LogExecution(l)

\* The whole pipeline, every venue filling at once or every call failing.
Next ==
    \/ NextMonitor
    \/ NextHedgeWith(AllOrNone)

\* The pipeline with a process that may crash.
NextCrash ==
    \/ Next
    \/ Crash

Init == InitWith(0)

\* The request handleDepositEvent queues for the event of tx.
RequestOf(tx) == [depositTxHash |-> tx, ethAmount |-> AmountOf(tx)]

\* What the list hedge_requests can hold: requests of the monitor, and what
\* another writer of the list left there.
Payloads == {RequestOf(tx) : tx \in Tx} \cup {Malformed}

RECURSIVE CountOf(_, _)
CountOf(q, tx) ==
    IF q = <<>> THEN 0
    ELSE (IF Head(q).depositTxHash = tx THEN 1 ELSE 0) + CountOf(Tail(q), tx)

\* The store as the monitor leaves it when it has queued the requests of q
\* (each deposit in a block of its own; the record of every queued deposit
\* stored), the monitor not started, the flag of the hedge service at
\* running and its loops at the positions at.
InitServed(q, faults, running, at) ==
    LET queued == {tx \in Tx : CountOf(q, tx) > 0}
    IN  /\ head = NumTx
        /\ blockOf = [t \in Tx |-> t]
        /\ pendingLive = [tx \in Tx |-> 0]
        /\ now = 0
        /\ isRunning = FALSE
        /\ lastProcessedBlock = 0
        /\ reconList = <<>>
        /\ deposits = {[transactionHash |-> tx, blockNumber |-> tx,
                        amount |-> AmountOf(tx), timestamp |-> 0] : tx \in queued}
        /\ depositIndex = {<<0, tx>> : tx \in queued}
        /\ queue = q
        /\ persistedLast = IF queued = {} THEN NoBlock
                           ELSE CHOOSE b \in queued : \A t \in queued : t <= b
        /\ hedge = [t \in Tx |-> [v \in Venues |-> NoPos]]
        /\ hedgeIndex = [t \in Tx |-> {}]
        /\ hedgeLog = [t \in Tx |-> NoLog]
        /\ faultsLeft = faults
        /\ isProcessing = running
        /\ pc = at
        /\ cur = [l \in Loops |-> NoReq]
        /\ results = [l \in Loops |-> <<>>]
        /\ handled = [t \in Tx |-> CountOf(q, t)]
        /\ pushed = [t \in Tx |-> CountOf(q, t)]
        /\ pushOrder = [i \in 1..Len(q) |-> q[Len(q) + 1 - i].depositTxHash]
        /\ popOrder = <<>>
        /\ venueCalls = [t \in Tx |-> [v \in Venues |-> 0]]
        /\ logWrites = [t \in Tx |-> 0]
        /\ startBlock = 0
        /\ startPersisted = FALSE
        /\ liveSinceStart = FALSE
        /\ cyclesSinceStart = 0
        /\ cycleHead = 0
        /\ crashes = 0
        /\ outcome = [l \in Loops |-> NoOutcome]
        /\ reported = [t \in Tx |-> "none"]
        /\ discarded = 0
        /\ returned = NoReturn
        /\ http = NoHttp
        /\ lastClose = NoClose
        /\ requested = NoSize
        /\ submitted = NoOrder
        /\ present = ConfigFields
        /\ app = "connected"
        /\ connected = TRUE
        /\ listeners = 0
        /\ timers = 0
        /\ starting = 0

\* The same store with neither service started.
InitQueue(q, faults) == InitServed(q, faults, FALSE, [l \in Loops |-> "stopped"])

\* The hedge service is started, its loop suspended in brPop, and the
\* monitor has queued requests of one deposit since.
InitRunning ==
    \E tx \in Tx, n \in 1..MaxQueue : \E l \in Loops :
        InitServed([i \in 1..n |-> RequestOf(tx)], 0, TRUE,
                   [k \in Loops |-> IF k = l THEN "pop" ELSE "stopped"])

\* The event of one deposit was handled n times (a live delivery and
\* replays): its record, n requests.
InitReplayedWith(faults) ==
    \E tx \in Tx, n \in 1..MaxQueue :
        InitQueue([i \in 1..n |-> RequestOf(tx)], faults)

\* The list holds up to MaxQueue payloads, of the monitor or not.
InitAnyQueue(faults) ==
    \E n \in 1..MaxQueue : \E q \in [1..n -> Payloads] : InitQueue(q, faults)

\* The list holds up to MaxQueue payloads: requests of one deposit, and
\* payloads that do not parse.
InitPoisoned(faults) ==
    \E tx \in Tx, n \in 1..MaxQueue :
        \E q \in [1..n -> {RequestOf(tx), Malformed}] : InitQueue(q, faults)

InitReplayed == InitReplayedWith(0)

\* The hedge service and calls of closeHedgePositions from the close route.
NextClose ==
    \/ NextHedgeWith(FillOrFail)
    \/ \E tx \in Tx : \E readOk \in ReadOutcomes : \E filled \in [Venues -> BOOLEAN] :
           CloseHedgePositions(tx, readOk, filled)

\* The consumer loop with venue, store and payload failures, and stop().
NextLoop ==
    \/ NextHedgeWith(AllOrNone)
    \/ \E l \in Loops : PopFails(l)
    \/ HedgeStop
    \/ \E l \in Loops : LoopExit(l)

\* The hedge service and callers of the read accessors.
NextReads ==
    \/ NextHedgeWith(AllOrNone)
    \/ CallGetDepositHistory
    \/ CallGetDepositByTxHash
    \/ CallGetHedgeByTxHash
    \/ CallGetHedgeLog

\* The hedge service and clients of the routes keyed by txHash.
NextRoutes ==
    \/ NextHedgeWith(AllOrNone)
    \/ GetDepositRoute
    \/ GetHedgesRoute

\* The two adapters that round the size of their order.
NextSizing ==
    \/ BinanceSizeOrder
    \/ BybitSizeOrder

\* The loops of the hedge service, once started: a pop that is answered, a
\* pop that is rejected, and the execution of the request popped.
NextExecute(outcomes) ==
    \/ \E l \in Loops : Pop(l)
    \/ \E l \in Loops : PopFails(l)
    \/ \E l \in Loops : Guard(l)
    \/ \E l \in Loops : \E o \in outcomes : FanOut(l, o)
    \/ \E l \in Loops : StorePositions(l)
    \/ \E l \in Loops : LogExecution(l)

\* The application is started on a store that holds requests, runs and is
\* stopped.
NextStop ==
    \/ AppStartMonitor
    \/ AppStartHedge
    \/ AppListen
    \/ AppStop
    \/ TimerExpire
    \/ NextExecute(FillOrFail)

\* The hedge service with a fan-out whose promises settle one at a time.
NextWait ==
    \/ HedgeStart
    \/ \E l \in Loops : Pop(l)
    \/ \E l \in Loops : Guard(l)
    \/ \E l \in Loops : \E o \in FillOrFail : FanOutCall(l, o)
    \/ \E l \in Loops : \E i \in 1..Len(VenueOrder) : Settle(l, i)
    \/ \E l \in Loops : AllSettled(l)
    \/ \E l \in Loops : StorePositions(l)
    \/ \E l \in Loops : LogExecution(l)

\* The pipeline from the log to the execution, neither service stopped.
NextPipeline ==
    \/ \E k \in 1..NumTx : MineBlock(k)
    \/ MonitorStart
    \/ LiveDeliver
    \/ ReconFetch
    \/ ReconStep
    \/ NextHedgeWith(AllOrNone)

\* The running hedge service is stopped and not started again.
NextHalt ==
    \/ HedgeStop
    \/ \E l \in Loops : Pop(l)
    \/ \E l \in Loops : LoopExit(l)
    \/ \E l \in Loops : Guard(l)
    \/ \E l \in Loops : \E o \in AllOrNone : FanOut(l, o)
    \/ \E l \in Loops : StorePositions(l)
    \/ \E l \in Loops : LogExecution(l)

\* The hedge service on a store that holds requests, in a process that may
\* crash and is started again.
NextRestart ==
    \/ NextHedgeWith(AllOrNone)
    \/ Crash

\* Application start.
NextApp ==
    \/ AppValidate
    \/ AppConnect
    \/ AppStartMonitor
    \/ AppStartHedge
    \/ AppListen

Spec == Init /\ [][Next]_vars
SpecCrash == Init /\ [][NextCrash]_vars
SpecHedge == InitReplayed /\ [][NextHedgeWith(VenueOutcomes)]_vars
SpecMonitor == InitWith(0) /\ [][NextMonitor]_vars
SpecStoreFail == InitWith(MaxStoreFaults) /\ [][NextMonitor]_vars
SpecRecon == InitWith(MaxStoreFaults) /\ [][NextRecon]_vars
SpecHalt == InitRunning /\ [][NextHalt]_vars
SpecClose == InitReplayed /\ [][NextClose]_vars
SpecLoop == InitPoisoned(MaxStoreFaults) /\ [][NextLoop]_vars
SpecReads == InitAnyQueue(0) /\ [][NextReads]_vars
SpecRoutes == InitAnyQueue(0) /\ [][NextRoutes]_vars
SpecSizing == InitSizing /\ [][NextSizing]_vars
SpecApp == InitApp /\ [][NextApp]_vars
\* The runtime resumes a loop whose awaited call has settled: the store
\* answers, and every venue call returns or throws.
FairSpecHedge == SpecHedge /\ WF_vars(NextExecute(VenueOutcomes))
\* An answered brPop, a timed-out brPop and every await of executeHedge
\* return in the end.
FairSpecHalt ==
    SpecHalt /\ WF_vars(NextExecute(AllOrNone) \/ \E l \in Loops : LoopExit(l))
SpecRestart == InitReplayed /\ [][NextRestart]_vars

\* The process is started again after a crash, and the awaits of the loop
\* return.
FairSpecRestart ==
    SpecRestart /\ WF_vars(HedgeStart) /\ WF_vars(NextExecute(AllOrNone))
SpecPipeline == Init /\ [][NextPipeline]_vars
SpecWait == InitReplayed /\ [][NextWait]_vars
SpecStop == InitReplayed /\ [][NextStop]_vars
SpecLifecycle == InitWith(0) /\ [][NextLifecycle]_vars
FairSpecMonitor ==
    SpecMonitor /\ WF_vars(MonitorStart) /\ WF_vars(ReconFetch) /\ WF_vars(ReconStep)

\* ------------------------------------------------------------------ claims
RECURSIVE CountIn(_, _)
CountIn(q, tx) ==
    IF q = <<>> THEN 0
    ELSE (IF Head(q).depositTxHash = tx THEN 1 ELSE 0) + CountIn(Tail(q), tx)

\* Calls of executeHedge for tx that have returned (nothing pops but the loop).
Completed(tx) ==
    pushed[tx] - CountIn(queue, tx)
        - Cardinality({l \in Loops : cur[l].depositTxHash = tx})

Stored(tx) == {r \in deposits : r.transactionHash = tx}
Indexed(tx) == {p \in depositIndex : p[2] = tx}

NonFailed(positions) ==
    Cardinality({i \in 1..Len(positions) : positions[i].status # "failed"})

\* C1: no venue's open-short call is invoked more than once for a deposit,
\* whatever is queued twice and wherever the process crashes and restarts.
C1_AtMostOnceExecution ==
    \A tx \in Tx : \A v \in Venues : venueCalls[tx][v] <= 1

\* C2: once a call of executeHedge for a deposit has returned, a later call
\* for the same deposit stops at the existence check: one execution log was
\* written, no venue was called twice, and the stored positions and index
\* are those of the log of the first call.
C2_SecondCallIsNoOp ==
    \A tx \in Tx : Completed(tx) >= 1 =>
        /\ logWrites[tx] = 1
        /\ hedgeLog[tx] # NoLog
        /\ \A v \in Venues : venueCalls[tx][v] <= 1
        /\ \A l \in Loops : cur[l].depositTxHash = tx => pc[l] = "guard"
        /\ Cardinality(hedgeIndex[tx]) = Len(hedgeLog[tx].positions)
        /\ \A v \in Venues :
               \/ hedge[tx][v] = NoPos
                  /\ \A i \in 1..Len(hedgeLog[tx].positions) :
                         hedgeLog[tx].positions[i].type # v
               \/ \E i \in 1..Len(hedgeLog[tx].positions) :
                         hedgeLog[tx].positions[i] = hedge[tx][v]

\* A second call has returned after a first call in which every venue failed.
C2_Witness ==
    \E tx \in Tx :
        /\ Completed(tx) >= 2
        /\ logWrites[tx] = 1
        /\ Len(hedgeLog[tx].positions) = 2
        /\ NonFailed(hedgeLog[tx].positions) = 0

\* C3: an executed request leaves one position record per venue, four in
\* all, and a venue whose call threw has a record with state failed, price 0
\* and the requested size.
C3_OneRecordPerVenue ==
    /\ \A tx \in Tx : hedgeLog[tx] # NoLog =>
           /\ Len(hedgeLog[tx].positions) = Cardinality(Venues)
           /\ \A v \in Venues : hedge[tx][v] # NoPos
    /\ \A l \in Loops : pc[l] = "log" =>
           \A i \in 1..Len(results[l]) : results[l][i].status = "rejected" =>
               LET rec == hedge[cur[l].depositTxHash][VenueOrder[i]]
               IN  rec.status = "failed" /\ rec.price = 0
                   /\ rec.amount = cur[l].ethAmount

\* C4: successCount of an execution log is the number of its positions whose
\* state is not failed.
C4_SuccessCountIsNonFailed ==
    \A tx \in Tx : hedgeLog[tx] # NoLog =>
        hedgeLog[tx].successCount = NonFailed(hedgeLog[tx].positions)

\* C5: under fairness of the reconciliation timer, the event of every deposit
\* mined above the block the running monitor started from is eventually
\* stored and has a request queued, unless the monitor is stopped first.
C5_EveryEventEventuallyHandled ==
    \A tx \in Tx :
        (isRunning /\ blockOf[tx] > startBlock)
            ~> ((Stored(tx) # {} /\ pushed[tx] >= 1) \/ ~isRunning)

\* The events of the range (L, H] of the last reconciliation cycle.
InCycleRange == {tx \in Mined : blockOf[tx] > startBlock /\ blockOf[tx] <= cycleHead}

\* start() behind the head, then one whole cycle and no live delivery.
FirstCycleDone ==
    /\ cyclesSinceStart = 1
    /\ reconList = <<>>
    /\ ~liveSinceStart
    /\ startBlock < cycleHead

RECURSIVE MaxBlockOf(_, _)
MaxBlockOf(S, least) ==
    IF S = {} THEN least
    ELSE LET tx == CHOOSE x \in S : TRUE
         IN  MaxBlockOf(S \ {tx}, Max(least, blockOf[tx]))

\* C6: after the first reconciliation cycle of a monitor started at L behind
\* the head H, with no live delivery, each of the k events of (L, H] has one
\* stored record and one queued request, and lastProcessedBlock is the
\* highest block among them.
C6_GapRecovery ==
    FirstCycleDone =>
        /\ \A tx \in InCycleRange :
               /\ Cardinality(Stored(tx)) = 1
               /\ CountIn(queue, tx) = 1
               /\ pushed[tx] = 1
        /\ lastProcessedBlock = MaxBlockOf(InCycleRange, startBlock)

\* A monitor that found last_processed_block in the store has recovered a gap
\* of at least one event.
C6_Witness ==
    /\ FirstCycleDone
    /\ startPersisted
    /\ InCycleRange # {}
    /\ lastProcessedBlock > startBlock

\* C7: however often the event of a deposit is handled, there is one record
\* under its txHash and one entry for it in the time-ordered index.
C7_IdempotentIngestion ==
    \A tx \in Tx : handled[tx] >= 1 =>
        /\ Cardinality(Stored(tx)) = 1
        /\ Cardinality(Indexed(tx)) = 1

\* An event handled twice, the second time at a later time.
C7_Witness ==
    \E tx \in Tx :
        /\ handled[tx] >= 2
        /\ \E r \in Stored(tx) : r.timestamp > 0
        /\ Cardinality(Indexed(tx)) = 1

\* C8 as claimed: one request is ever pushed for a deposit once its event was
\* handled.
C8_ExactlyOneRequest ==
    \A tx \in Tx : handled[tx] >= 1 => pushed[tx] = 1

\* C8 amended: the monitor pushes one request per handling of the event and
\* does not deduplicate (nothing pops in this specification).
C8_OneRequestPerHandling ==
    \A tx \in Tx : CountIn(queue, tx) = handled[tx] /\ pushed[tx] = handled[tx]

\* An event handled twice, with two requests in the queue.
C8_Witness ==
    \E tx \in Tx : handled[tx] = 2 /\ CountIn(queue, tx) = 2

\* C9: every request in the work queue is for a deposit whose record is in
\* the store, also when a store command of the handler fails.
C9_DepositStoredBeforeQueued ==
    \A i \in 1..Len(queue) : Stored(queue[i].depositTxHash) # {}

\* C10: a stored deposit record and its index entry never change.
C10_DepositImmutable ==
    [][/\ \A r \in deposits : r \in deposits'
       /\ \A p \in depositIndex : p \in depositIndex']_vars

\* The venues with a record for the deposit when closeHedgePositions was called.
Recorded(c) == {v \in Venues : c.before[v] # NoPos}

\* C11: closeHedgePositions returns true only if every position recorded for
\* the txHash was closed at its venue; it returns false in every other case,
\* also when the positions could not be read from the store.
C11_CloseTrueOnlyIfAllClosed ==
    lastClose # NoClose =>
        /\ lastClose.result => Recorded(lastClose) \subseteq lastClose.closed
        /\ ~lastClose.readOk => ~lastClose.result

\* C12: after closeHedgePositions, the positions whose close call succeeded
\* are stored with state closed and the others are stored as they were.
C12_ClosedPositionsTransition ==
    lastClose # NoClose =>
        \A v \in Recorded(lastClose) :
            IF v \in lastClose.closed
            THEN hedge[lastClose.txHash][v].status = "closed"
            ELSE hedge[lastClose.txHash][v] = lastClose.before[v]

\* The open-short call of v's own adapter works for req: the venue accepts
\* the order, and for CME the size is at least one contract.
OwnCallSucceeds(v, o, req) ==
    IF v = "binance" THEN o.binance # "throw"
    ELSE IF v = "cme"
         THEN o.cme # "failed" /\ (req.ethAmount * EthPrice) \div ContractUsd > 0
         ELSE o[v] # "failed"

\* C13: whatever fails at the other venues, a venue whose own adapter call
\* works has a position that is not failed as its result of the fan-out.
C13_IndependentFailureDomains ==
    \A l \in Loops : pc[l] \in {"store", "log"} =>
        \A i \in 1..Len(VenueOrder) :
            OwnCallSucceeds(VenueOrder[i], outcome[l], cur[l]) =>
                /\ results[l][i].status = "fulfilled"
                /\ results[l][i].value.status # "failed"

\* C14: an execution with no success is reported as unhedged, one in which
\* every venue succeeded as fully hedged, and fully hedged is reported only
\* when every venue succeeded (successes as executeHedge counts them).
C14_OutcomeClassification ==
    \A tx \in Tx : reported[tx] # "none" =>
        /\ hedgeLog[tx].successCount = 0 => reported[tx] = "unhedged"
        /\ hedgeLog[tx].successCount = Cardinality(Venues) => reported[tx] = "full"
        /\ reported[tx] = "full" => hedgeLog[tx].successCount = Cardinality(Venues)

\* C15: an execution log records as total the number of venues of the
\* fan-out, and its successCount is at most that total.
C15_TotalIsVenuesAttempted ==
    \A tx \in Tx : hedgeLog[tx] # NoLog =>
        /\ hedgeLog[tx].totalHedges = Cardinality(Venues)
        /\ hedgeLog[tx].successCount <= hedgeLog[tx].totalHedges

\* C16: an error in an iteration never ends the consumer loop.  While
\* stop() has not been called the loop is alive; a payload that does not
\* parse is dropped and never executed; and once the list is drained every
\* queued request has been executed (its venues were called).
C16_LoopSurvivesErrors ==
    /\ isProcessing => Live # {}
    /\ \A l \in Loops : cur[l] # Malformed
    /\ (InFlight = {} /\ queue = <<>>) =>
           \A tx \in Tx : pushed[tx] >= 1 => venueCalls[tx]["hyperliquid"] >= 1

\* A request is being executed by a running loop that has dropped a payload
\* before popping the request and has seen a store command fail.
C16_Witness ==
    /\ isProcessing
    /\ \E l \in Loops : pc[l] = "log"
    /\ discarded >= 1
    /\ faultsLeft < MaxStoreFaults

\* C17: a route keyed by txHash answers 404 when nothing is recorded under
\* the txHash.
C17_UnknownHashIs404 ==
    http # NoHttp => (~http.known => http.status = 404)

\* C20: a call of getDepositHistory, getDepositByTxHash, getHedgeByTxHash or
\* getHedgeLog changes nothing in the store and no field of a service.
C20_AccessorsArePureReads ==
    [][returned' # returned =>
          UNCHANGED <<deposits, depositIndex, queue, persistedLast, hedge, hedgeIndex,
                      hedgeLog, isRunning, lastProcessedBlock, isProcessing>>]_vars

\* getDepositHistory has returned the records of two deposits, both still
\* stored and indexed.
C20_Witness ==
    /\ returned.op = "getDepositHistory"
    /\ Len(returned.value) = 2
    /\ Cardinality(deposits) = 2
    /\ Cardinality(depositIndex) = 2

C19_SeedOnStart ==
    [][(~isRunning /\ isRunning') =>
          lastProcessedBlock' = IF persistedLast # NoBlock THEN persistedLast
                                ELSE head - BackfillWindow]_vars

\* A monitor started above genesis with nothing stored, before its first
\* reconciliation cycle.
C19_Witness ==
    /\ isRunning
    /\ ~startPersisted
    /\ cyclesSinceStart = 0
    /\ cycleHead >= 1
    /\ lastProcessedBlock = cycleHead - BackfillWindow

\* C21: when a credential or address of the chain or of one of the four
\* venues is missing, start() fails before the store is connected and before
\* either service is started.
C21_MissingCredentialFailsStart ==
    present # ConfigFields =>
        /\ app # "listening"
        /\ ~connected
        /\ ~isRunning
        /\ ~isProcessing

\* C22: whatever the sequence of start() and stop() calls, at most one loop
\* of processHedgeRequests is alive and at most one executeHedge is in flight.
C22_SingleConsumer ==
    /\ Cardinality(Live) <= 1
    /\ Cardinality(InFlight) <= 1

\* C23: the subscription is registered only while the monitor is running,
\* whatever start() and stop() calls interleave, and once.
C23_SubscribedOnlyWhileRunning ==
    /\ listeners > 0 => isRunning
    /\ listeners <= 1

\* C24: at most one reconciliation timer fires cycles at any time: the timer
\* of a start() is gone once the matching stop() has returned and the
\* monitor runs again.
C24_OneTimer ==
    isRunning => timers <= 1

\* The loops whose executeHedge has made its venue calls and has not returned.
Started == {l \in Loops : pc[l] \in {"wait", "store", "log"}}

\* C25: an application stop does not close the store connection while an
\* execution that has started its fan-out still has positions or its
\* execution log to persist.
C25_StopKeepsInFlightExecution ==
    [][(connected /\ ~connected') => Started = {}]_vars

\* C26: with the loop running and the store reachable, every request in the
\* work queue is eventually popped and its execution returns with an
\* execution log stored for its deposit, whatever the venues do.
C26_QueueDrains ==
    \A tx \in Tx :
        (isProcessing /\ CountIn(queue, tx) > 0)
            ~> (/\ CountIn(queue, tx) = 0
                /\ \A l \in Loops : cur[l].depositTxHash # tx
                /\ hedgeLog[tx] # NoLog)

\* The queue is drained: the first request of a deposit was executed with
\* every venue call failing, a second one has returned, and the log is there.
C26_Witness ==
    /\ isProcessing
    /\ queue = <<>>
    /\ InFlight = {}
    /\ \E tx \in Tx :
           /\ Completed(tx) >= 2
           /\ hedgeLog[tx] # NoLog
           /\ NonFailed(hedgeLog[tx].positions) = 0

\* The loops that are executing a request of tx.
Executing(tx) == {l \in Loops : cur[l].depositTxHash = tx}

\* C27: no position is persisted and no execution log is written for a
\* request until its four venue calls have all settled, and its execution
\* log is written only when all its positions have been written.
C27_WaitForAll ==
    [][\A tx \in Tx :
          /\ (hedge'[tx] # hedge[tx] \/ hedgeIndex'[tx] # hedgeIndex[tx]
                  \/ hedgeLog'[tx] # hedgeLog[tx]) =>
                 \E l \in Executing(tx) :
                     /\ Len(results[l]) = Len(VenueOrder)
                     /\ \A i \in 1..Len(results[l]) : results[l][i].status # "pending"
          /\ hedgeLog'[tx] # hedgeLog[tx] =>
                 /\ hedge'[tx] = hedge[tx]
                 /\ hedgeIndex'[tx] = hedgeIndex[tx]
                 /\ \E l \in Executing(tx) :
                        \A i \in 1..Len(results[l]) :
                            results[l][i].status = "fulfilled" =>
                                /\ hedge[tx][results[l][i].value.type] = results[l][i].value
                                /\ results[l][i].value.id \in hedgeIndex[tx]]_vars

\* An execution log is in the store whose request saw the call of Binance
\* throw: it holds the positions of the three other venues, which are stored.
C27_Witness ==
    \E tx \in Tx :
        /\ hedgeLog[tx] # NoLog
        /\ Len(hedgeLog[tx].positions) = 3
        /\ hedge[tx]["binance"] = NoPos
        /\ hedge[tx]["cme"] # NoPos

\* C28: handling an event of block b leaves lastProcessedBlock at the larger
\* of its value and b; between a start() and the next the field never goes
\* down, and the stored last_processed_block never exceeds it.
C28_LastProcessedIsMax ==
    [][/\ \A tx \in Tx : handled'[tx] # handled[tx] =>
              lastProcessedBlock' = Max(lastProcessedBlock, blockOf[tx])
       /\ ~(~isRunning /\ isRunning') => lastProcessedBlock' >= lastProcessedBlock
       /\ persistedLast' # NoBlock => persistedLast' <= lastProcessedBlock']_vars

\* An event of a lower block was handled after an event of a higher block,
\* and the field stayed at the higher block.
C28_Witness ==
    \E t1, t2 \in Tx :
        /\ blockOf[t1] # 0
        /\ blockOf[t1] < blockOf[t2]
        /\ lastProcessedBlock = blockOf[t2]
        /\ \E r1 \in Stored(t1), r2 \in Stored(t2) : r1.timestamp > r2.timestamp

\* C29: the loop pops the requests in the order in which the monitor pushed
\* them: what has been popped is the oldest part of what has been pushed,
\* in the same order.
C29_QueueIsFifo ==
    /\ Len(popOrder) <= Len(pushOrder)
    /\ popOrder = SubSeq(pushOrder, 1, Len(popOrder))

\* Requests of two deposits were pushed, a replay among them, and all of
\* them were popped.
C29_Witness ==
    /\ Len(popOrder) >= 3
    /\ queue = <<>>
    /\ \E i, j \in 1..Len(popOrder) : popOrder[i] # popOrder[j]

C31_FailureKeepsHandling ==
    [][(reconList # <<>> /\ reconList' # reconList) =>
          /\ reconList' = Tail(reconList)
          /\ handled'[Head(reconList)] = handled[Head(reconList)] + 1]_vars

\* In the first cycle the record of an event was not persisted or its request
\* not queued, and a later event of the cycle has been handled since.
C31_Witness ==
    /\ cyclesSinceStart = 1
    /\ \E tx, later \in Tx :
           /\ blockOf[tx] < blockOf[later]
           /\ handled[tx] = 1
           /\ Stored(tx) = {} \/ pushed[tx] = 0
           /\ handled[later] = 1

\* C32: after stop() with no later start() a consumer loop ends: once it has
\* passed its pending pop or is inside an execution it never pops again, and
\* every loop is over in the end.
C32_StopEndsLoop ==
    /\ [][\A l \in Loops :
            (~isProcessing /\ ~isProcessing' /\ pc[l] # "pop") => pc'[l] # "pop"]_vars
    /\ ~isProcessing ~> Live = {}

\* Every loop is over after a stop() that came while requests were still
\* queued and after a request had been popped.
C32_Witness ==
    /\ ~isProcessing
    /\ Live = {}
    /\ popOrder # <<>>
    /\ queue # <<>>

\* C33: getHedgeByTxHash returns at most one position of a venue for a
\* deposit: the index of the deposit never holds two ids of one venue.
C33_OnePositionPerVenue ==
    \A tx \in Tx :
        LET positions == GetHedgeByTxHash(tx)
        IN  \A i, j \in 1..Len(positions) :
                positions[i].type = positions[j].type => i = j

\* C35: the existence check fails closed: when its read of the positions of
\* the deposit fails, executeHedge does not go on to the fan-out.
C35_GuardFailsClosed ==
    [][\A l \in Loops :
          (pc[l] = "guard" /\ faultsLeft' < faultsLeft) => pc'[l] # "fanout"]_vars

\* C34: a partial success is not rolled back: no step of the hedge service
\* makes a venue close call, and a position that is stored is neither
\* changed nor removed afterwards, whatever subset of the venues failed.
C34_PartialSuccessIsTerminal ==
    [][/\ lastClose' = lastClose
       /\ \A tx \in Tx : \A v \in Venues :
              hedge[tx][v] # NoPos => hedge'[tx][v] = hedge[tx][v]]_vars

\* An execution in which some venues failed and others did not has returned,
\* and a later request of the same deposit has been popped and dropped by
\* the existence check.
C34_Witness ==
    \E tx \in Tx :
        /\ hedgeLog[tx] # NoLog
        /\ \E v \in Venues : hedge[tx][v] # NoPos /\ hedge[tx][v].status = "failed"
        /\ \E v \in Venues : hedge[tx][v] # NoPos /\ hedge[tx][v].status # "failed"
        /\ \E v \in Venues : hedge[tx][v] = NoPos
        /\ Len(popOrder) >= 2
        /\ InFlight = {}

\* A step handles the event of tx and its request is not pushed, or its
\* record is still missing afterwards.
FailedHandling(tx) ==
    /\ handled'[tx] = handled[tx] + 1
    /\ \/ pushed'[tx] = pushed[tx]
       \/ \A r \in deposits' : r.transactionHash # tx

\* C36: an event whose record could not be persisted or whose request could
\* not be pushed does not advance lastProcessedBlock, neither the field nor
\* the stored key, so that the next reconciliation cycle covers its block.
C36_FailedEventKeepsCursor ==
    [][\A tx \in Tx :
          FailedHandling(tx) => /\ lastProcessedBlock' = lastProcessedBlock
                                /\ persistedLast' = persistedLast]_vars

\* C37: closeHedgePositions makes a close call only for a position whose
\* recorded state is open or pending, never for one recorded as failed.
C37_ClosesOnlyOpenedPositions ==
    lastClose # NoClose =>
        \A v \in Venues :
            lastClose.calls[v] > 0 => lastClose.before[v].status \in {"open", "pending"}

\* The request of tx has been popped from the work queue.
Popped(tx) == \E i \in 1..Len(popOrder) : popOrder[i] = tx

\* C38: a request that was popped is not lost when the process crashes: once
\* the process runs again, the deposit of the request gets its execution log
\* in the end.
C38_PoppedRequestIsExecuted ==
    \A tx \in Tx : Popped(tx) ~> hedgeLog[tx] # NoLog

====
